---- MODULE Spec2Model ----
(***************************************************************************)
(* Model of builtin/credential/aws/path_config_client.go: the handlers of  *)
(* the "config/client" path of the AWS auth backend (existence check,      *)
(* read, create/update, delete), the reader-writer mutex b.configMutex     *)
(* that guards them, the storage entry "config/client" and the cache of    *)
(* EC2 client objects that the write handlers flush.                       *)
(***************************************************************************)
EXTENDS Naturals, Sequences, FiniteSets, TLC

(***************************************************************************)
(* Bounds                                                                  *)
(***************************************************************************)
\* number of request-handling goroutines
NumProcs == 2

Procs == 1..NumProcs
NoProc == 0

(***************************************************************************)
(* Values                                                                  *)
(***************************************************************************)
\* the strings a request can carry for a field; "" is the schema default
Strings == {"", "A1"}

\* the three fields of the path's schema
FieldNames == {"access_key", "secret_key", "endpoint"}

\* FieldSchema.Default of every field
FieldDefault(k) == ""

\* framework.FieldData: the raw map of a request holds the supplied fields only
Requests == UNION {[S -> Strings] : S \in SUBSET FieldNames}

\* data.GetOk(k): the second result, whether the request supplies the field
GetOk(d, k) == k \in DOMAIN d

\* data.Get(k): the supplied value, else the schema default
Get(d, k) == IF k \in DOMAIN d THEN d[k] ELSE FieldDefault(k)

\* the clientConfig struct
ClientConfigs == [AccessKey : Strings, SecretKey : Strings, Endpoint : Strings]

\* &clientConfig{}: the zero value
ZeroConfig == [AccessKey |-> "", SecretKey |-> "", Endpoint |-> ""]

\* a *clientConfig is nil (the empty tuple) or points to a struct
Nil == <<>>
Ptr(c) == <<c>>

\* the bytes stored under "config/client": no entry, a JSON object, or bytes
\* that are not a JSON object with string fields
NoEntry == <<>>
Garbage == <<"garbage">>

\* StorageEntryJSON with the endpoint left out of the object
StorageEntryJSONNoEndpoint(c) == <<"json", c.AccessKey, c.SecretKey, "">>

\* logical.StorageEntryJSON: the struct as a JSON object, by its json tags
StorageEntryJSON(c) == <<"json", c.AccessKey, c.SecretKey, c.Endpoint>>

\* entry.DecodeJSON succeeds exactly on a JSON object
DecodeOk(bytes) == Len(bytes) = 4 /\ bytes[1] = "json"
DecodeJSON(bytes) ==
    [AccessKey |-> bytes[2], SecretKey |-> bytes[3], Endpoint |-> bytes[4]]

\* a map whose access_key and secret_key tags are exchanged
StructMapTagsExchanged(c) ==
    [access_key |-> c.SecretKey, secret_key |-> c.AccessKey, endpoint |-> c.Endpoint]

\* structs.New(clientConfig).Map(): the struct as a map, by its structs tags
StructMap(c) ==
    [access_key |-> c.AccessKey, secret_key |-> c.SecretKey, endpoint |-> c.Endpoint]

\* a load that takes bytes that do not decode for a missing entry
clientConfigEntryInternalDefaultsCorrupt(bytes, ioerr) ==
    IF ioerr THEN [entry |-> Nil, err |-> "io"]
    ELSE IF bytes = NoEntry THEN [entry |-> Nil, err |-> "none"]
    ELSE IF ~DecodeOk(bytes) THEN [entry |-> Nil, err |-> "none"]
    ELSE [entry |-> Ptr(DecodeJSON(bytes)), err |-> "none"]

\* clientConfigEntryInternal: Get, then decode; an I/O failure of Get is an input
clientConfigEntryInternal(bytes, ioerr) ==
    IF ioerr THEN [entry |-> Nil, err |-> "io"]
    ELSE IF bytes = NoEntry THEN [entry |-> Nil, err |-> "none"]
    ELSE IF ~DecodeOk(bytes) THEN [entry |-> Nil, err |-> "decode"]
    ELSE [entry |-> Ptr(DecodeJSON(bytes)), err |-> "none"]

\* a field block that sets changedCreds whenever the field is supplied
MergeFieldNoCompare(cur, d, k, op) ==
    IF GetOk(d, k)
    THEN [val |-> d[k], changed |-> TRUE]
    ELSE IF op = "create"
         THEN [val |-> Get(d, k), changed |-> FALSE]
         ELSE [val |-> cur, changed |-> FALSE]

\* one of the three field blocks of pathConfigClientCreateUpdate: the new
\* value of the field and whether the block set changedCreds
MergeField(cur, d, k, op) ==
    IF GetOk(d, k)
    THEN [val |-> d[k], changed |-> cur # d[k]]
    ELSE IF op = "create"
         THEN [val |-> Get(d, k), changed |-> FALSE]
         ELSE [val |-> cur, changed |-> FALSE]

\* the three blocks in sequence: the merged struct and changedCreds
Merge(c, d, op) ==
    LET a == MergeField(c.AccessKey, d, "access_key", op)
        s == MergeField(c.SecretKey, d, "secret_key", op)
        e == MergeField(c.Endpoint, d, "endpoint", op)
    IN  [entry |-> [AccessKey |-> a.val, SecretKey |-> s.val, Endpoint |-> e.val],
         changed |-> a.changed \/ s.changed \/ e.changed]

(***************************************************************************)
(* State                                                                   *)
(***************************************************************************)
VARIABLES
    store,          \* req.Storage: the bytes under "config/client"
    rwReaders,      \* b.configMutex: the goroutines holding it shared
    rwWriter,       \* b.configMutex: the goroutine holding it exclusively
    rwPending,      \* b.configMutex: the goroutine in Lock() waiting for readers
    cache,          \* b.EC2ClientsMap: the configs the cached clients were built from
    pc,             \* where each goroutine is in its handler
    reqOp,          \* req.Operation of a create/update request
    data,           \* the request's field data, once the handler reads it
    configEntry,    \* the handler's local configEntry / clientConfig
    changedCreds,   \* the handler's local changedCreds
    err,            \* the error the handler is returning
    resp,           \* Read's response data
    before,         \* history: the stored bytes when the handler took the mutex
    wrote,          \* history: storage writes (Put, Delete) the handler completed
    flushed,        \* history: calls of flushCachedEC2Clients by the handler
    lastCommitted   \* history: what the last returned write handler persisted

vars == <<store, rwReaders, rwWriter, rwPending, cache, pc, reqOp, data,
          configEntry, changedCreds, err, resp, before, wrote, flushed,
          lastCommitted>>

locals == <<reqOp, data, configEntry, changedCreds, err, resp, before, wrote, flushed>>

NoData == [k \in {} |-> ""]

Init ==
    /\ store \in {NoEntry, Garbage}
    /\ rwReaders = {}
    /\ rwWriter = NoProc
    /\ rwPending = NoProc
    /\ cache = {}
    /\ pc = [p \in Procs |-> "idle"]
    /\ reqOp = [p \in Procs |-> "none"]
    /\ data = [p \in Procs |-> NoData]
    /\ configEntry = [p \in Procs |-> Nil]
    /\ changedCreds = [p \in Procs |-> FALSE]
    /\ err = [p \in Procs |-> "none"]
    /\ resp = [p \in Procs |-> Nil]
    /\ before = [p \in Procs |-> NoEntry]
    /\ wrote = [p \in Procs |-> 0]
    /\ flushed = [p \in Procs |-> 0]
    /\ lastCommitted = <<"none">>

\* the handler returns: its locals and its history are gone
Reset(p) ==
    /\ reqOp' = [reqOp EXCEPT ![p] = "none"]
    /\ data' = [data EXCEPT ![p] = NoData]
    /\ configEntry' = [configEntry EXCEPT ![p] = Nil]
    /\ changedCreds' = [changedCreds EXCEPT ![p] = FALSE]
    /\ err' = [err EXCEPT ![p] = "none"]
    /\ resp' = [resp EXCEPT ![p] = Nil]
    /\ before' = [before EXCEPT ![p] = NoEntry]
    /\ wrote' = [wrote EXCEPT ![p] = 0]
    /\ flushed' = [flushed EXCEPT ![p] = 0]

(***************************************************************************)
(* Requests arrive                                                         *)
(***************************************************************************)
\* a read request is routed to pathConfigClientRead
StartRead(p) ==
    /\ pc[p] = "idle"
    /\ pc' = [pc EXCEPT ![p] = "r_rlock"]
    /\ UNCHANGED <<store, rwReaders, rwWriter, rwPending, cache, locals, lastCommitted>>

\* a create/update request: the router runs the path's ExistenceCheck first
StartWrite(p) ==
    /\ pc[p] = "idle"
    /\ pc' = [pc EXCEPT ![p] = "e_rlock"]
    /\ UNCHANGED <<store, rwReaders, rwWriter, rwPending, cache, locals, lastCommitted>>

\* a delete request is routed to pathConfigClientDelete
StartDelete(p) ==
    /\ pc[p] = "idle"
    /\ pc' = [pc EXCEPT ![p] = "d_lock"]
    /\ UNCHANGED <<store, rwReaders, rwWriter, rwPending, cache, locals, lastCommitted>>

(***************************************************************************)
(* b.configMutex                                                           *)
(***************************************************************************)
\* an RLock that does not wait for the writer
RLockNoWait(p) ==
    /\ pc[p] \in {"r_rlock", "e_rlock"}
    /\ rwReaders' = rwReaders \cup {p}
    /\ before' = [before EXCEPT ![p] = store]
    /\ pc' = [pc EXCEPT ![p] = IF pc[p] = "r_rlock" THEN "r_load" ELSE "e_load"]
    /\ UNCHANGED <<store, rwWriter, rwPending, cache, reqOp, data, configEntry,
                   changedCreds, err, resp, wrote, flushed, lastCommitted>>

\* clientConfigEntry: b.configMutex.RLock(); blocks while a writer holds the
\* mutex or waits for it
RLock(p) ==
    /\ pc[p] \in {"r_rlock", "e_rlock"}
    /\ rwWriter = NoProc
    /\ rwPending = NoProc
    /\ rwReaders' = rwReaders \cup {p}
    /\ before' = [before EXCEPT ![p] = store]
    /\ pc' = [pc EXCEPT ![p] = IF pc[p] = "r_rlock" THEN "r_load" ELSE "e_load"]
    /\ UNCHANGED <<store, rwWriter, rwPending, cache, reqOp, data, configEntry,
                   changedCreds, err, resp, wrote, flushed, lastCommitted>>

\* b.configMutex.Lock(), first half: the writer excludes other writers and
\* announces itself to the readers
LockAnnounce(p) ==
    /\ pc[p] \in {"u_lock", "d_lock"}
    /\ rwWriter = NoProc
    /\ rwPending = NoProc
    /\ rwPending' = p
    /\ pc' = [pc EXCEPT ![p] = IF pc[p] = "u_lock" THEN "u_wait" ELSE "d_wait"]
    /\ UNCHANGED <<store, rwReaders, rwWriter, cache, locals, lastCommitted>>

\* b.configMutex.Lock(), second half: the readers have left
LockAcquire(p) ==
    /\ pc[p] \in {"u_wait", "d_wait"}
    /\ rwPending = p
    /\ rwReaders = {}
    /\ rwWriter' = p
    /\ rwPending' = NoProc
    /\ before' = [before EXCEPT ![p] = store]
    /\ pc' = [pc EXCEPT ![p] = IF pc[p] = "u_wait" THEN "u_load" ELSE "d_del"]
    /\ UNCHANGED <<store, rwReaders, cache, reqOp, data, configEntry,
                   changedCreds, err, resp, wrote, flushed, lastCommitted>>

(***************************************************************************)
(* pathConfigClientRead                                                    *)
(***************************************************************************)
\* clientConfigEntryInternal under the shared mutex, then the response
ReadLoad(p) ==
    /\ pc[p] = "r_load"
    /\ \E ioerr \in BOOLEAN :
         LET r == clientConfigEntryInternal(store, ioerr) IN
         /\ err' = [err EXCEPT ![p] = r.err]
         /\ configEntry' = [configEntry EXCEPT ![p] = r.entry]
         /\ resp' = [resp EXCEPT ![p] =
                IF r.entry = Nil THEN Nil ELSE <<StructMap(r.entry[1])>>]
    /\ pc' = [pc EXCEPT ![p] = "r_unlock"]
    /\ UNCHANGED <<store, rwReaders, rwWriter, rwPending, cache, reqOp, data,
                   changedCreds, before, wrote, flushed, lastCommitted>>

\* the deferred RUnlock, and Read returns
ReadReturn(p) ==
    /\ pc[p] = "r_unlock"
    /\ rwReaders' = rwReaders \ {p}
    /\ pc' = [pc EXCEPT ![p] = "idle"]
    /\ Reset(p)
    /\ UNCHANGED <<store, rwWriter, rwPending, cache, lastCommitted>>

(***************************************************************************)
(* pathConfigClientExistenceCheck                                          *)
(***************************************************************************)
\* clientConfigEntryInternal under the shared mutex
ExistLoad(p) ==
    /\ pc[p] = "e_load"
    /\ \E ioerr \in BOOLEAN :
         LET r == clientConfigEntryInternal(store, ioerr) IN
         /\ err' = [err EXCEPT ![p] = r.err]
         /\ configEntry' = [configEntry EXCEPT ![p] = r.entry]
    /\ pc' = [pc EXCEPT ![p] = "e_unlock"]
    /\ UNCHANGED <<store, rwReaders, rwWriter, rwPending, cache, reqOp, data,
                   changedCreds, resp, before, wrote, flushed, lastCommitted>>

\* a router that takes an existing entry for a create
OperationForInverted(exists) == IF exists THEN "create" ELSE "update"

\* Returning 'true' forces an UpdateOperation, CreateOperation otherwise
OperationFor(exists) == IF exists THEN "update" ELSE "create"

\* the deferred RUnlock and the check's return: on an error the request fails,
\* otherwise the router sets req.Operation and calls pathConfigClientCreateUpdate
ExistReturn(p) ==
    /\ pc[p] = "e_unlock"
    /\ rwReaders' = rwReaders \ {p}
    /\ IF err[p] # "none"
       THEN /\ pc' = [pc EXCEPT ![p] = "idle"]
            /\ Reset(p)
       ELSE /\ pc' = [pc EXCEPT ![p] = "u_lock"]
            /\ reqOp' = [reqOp EXCEPT ![p] = OperationFor(configEntry[p] # Nil)]
            /\ configEntry' = [configEntry EXCEPT ![p] = Nil]
            /\ before' = [before EXCEPT ![p] = NoEntry]
            /\ UNCHANGED <<data, changedCreds, err, resp, wrote, flushed>>
    /\ UNCHANGED <<store, rwWriter, rwPending, cache, lastCommitted>>

(***************************************************************************)
(* pathConfigClientCreateUpdate                                            *)
(***************************************************************************)
\* a CreateUpdate that loads through clientConfigEntry, which takes the mutex
\* shared and so waits for the writer to leave
UpsertLoadLocking(p) ==
    /\ pc[p] = "u_load"
    /\ rwWriter = NoProc
    /\ rwPending = NoProc
    /\ \E ioerr \in BOOLEAN :
         LET r == clientConfigEntryInternal(store, ioerr) IN
         /\ err' = [err EXCEPT ![p] = r.err]
         /\ configEntry' = [configEntry EXCEPT ![p] =
                IF r.err # "none" THEN Nil
                ELSE IF r.entry = Nil THEN Ptr(ZeroConfig) ELSE r.entry]
         /\ pc' = [pc EXCEPT ![p] = IF r.err # "none" THEN "u_unlock" ELSE "u_put"]
    /\ UNCHANGED <<store, rwReaders, rwWriter, rwPending, cache, reqOp, data,
                   changedCreds, resp, before, wrote, flushed, lastCommitted>>

\* configEntry, err := b.clientConfigEntryInternal(req.Storage); a nil entry
\* is replaced by &clientConfig{}
UpsertLoad(p) ==
    /\ pc[p] = "u_load"
    /\ \E ioerr \in BOOLEAN :
         LET r == clientConfigEntryInternal(store, ioerr) IN
         /\ err' = [err EXCEPT ![p] = r.err]
         /\ configEntry' = [configEntry EXCEPT ![p] =
                IF r.err # "none" THEN Nil
                ELSE IF r.entry = Nil THEN Ptr(ZeroConfig) ELSE r.entry]
         /\ pc' = [pc EXCEPT ![p] = IF r.err # "none" THEN "u_unlock" ELSE "u_put"]
    /\ UNCHANGED <<store, rwReaders, rwWriter, rwPending, cache, reqOp, data,
                   changedCreds, resp, before, wrote, flushed, lastCommitted>>

\* a CreateUpdate that never flushes
AfterPutNoFlush(changed) == "u_unlock"

\* if changedCreds { b.flushCachedEC2Clients() }
AfterPut(changed) == IF changed THEN "u_flush" ELSE "u_unlock"

\* a CreateUpdate that releases the mutex as soon as its Put has returned
UpsertPutThenUnlock(p) ==
    /\ pc[p] = "u_put"
    /\ \E d \in Requests, ioerr \in BOOLEAN :
         LET m == Merge(configEntry[p][1], d, reqOp[p]) IN
         /\ data' = [data EXCEPT ![p] = d]
         /\ configEntry' = [configEntry EXCEPT ![p] = Ptr(m.entry)]
         /\ changedCreds' = [changedCreds EXCEPT ![p] = m.changed]
         /\ IF ioerr
            THEN /\ err' = [err EXCEPT ![p] = "io"]
                 /\ pc' = [pc EXCEPT ![p] = "u_unlock"]
                 /\ UNCHANGED <<store, wrote, rwWriter>>
            ELSE /\ store' = StorageEntryJSON(m.entry)
                 /\ wrote' = [wrote EXCEPT ![p] = wrote[p] + 1]
                 /\ pc' = [pc EXCEPT ![p] = AfterPut(m.changed)]
                 /\ rwWriter' = NoProc
                 /\ UNCHANGED err
    /\ UNCHANGED <<rwReaders, rwPending, cache, reqOp, resp, before,
                   flushed, lastCommitted>>

\* a CreateUpdate that puts the record only when a field changed
UpsertPutSkipUnchanged(p) ==
    /\ pc[p] = "u_put"
    /\ \E d \in Requests, ioerr \in BOOLEAN :
         LET m == Merge(configEntry[p][1], d, reqOp[p]) IN
         /\ data' = [data EXCEPT ![p] = d]
         /\ configEntry' = [configEntry EXCEPT ![p] = Ptr(m.entry)]
         /\ changedCreds' = [changedCreds EXCEPT ![p] = m.changed]
         /\ IF ioerr
            THEN /\ err' = [err EXCEPT ![p] = "io"]
                 /\ pc' = [pc EXCEPT ![p] = "u_unlock"]
                 /\ UNCHANGED <<store, wrote>>
            ELSE IF m.changed
            THEN /\ store' = StorageEntryJSON(m.entry)
                 /\ wrote' = [wrote EXCEPT ![p] = wrote[p] + 1]
                 /\ pc' = [pc EXCEPT ![p] = AfterPut(m.changed)]
                 /\ UNCHANGED err
            ELSE /\ pc' = [pc EXCEPT ![p] = "u_unlock"]
                 /\ UNCHANGED <<store, wrote, err>>
    /\ UNCHANGED <<rwReaders, rwWriter, rwPending, cache, reqOp, resp, before,
                   flushed, lastCommitted>>

\* the three field blocks over the request's data, StorageEntryJSON and
\* req.Storage.Put; an I/O failure of Put is an input and writes nothing
UpsertPut(p) ==
    /\ pc[p] = "u_put"
    /\ \E d \in Requests, ioerr \in BOOLEAN :
         LET m == Merge(configEntry[p][1], d, reqOp[p]) IN
         /\ data' = [data EXCEPT ![p] = d]
         /\ configEntry' = [configEntry EXCEPT ![p] = Ptr(m.entry)]
         /\ changedCreds' = [changedCreds EXCEPT ![p] = m.changed]
         /\ IF ioerr
            THEN /\ err' = [err EXCEPT ![p] = "io"]
                 /\ pc' = [pc EXCEPT ![p] = "u_unlock"]
                 /\ UNCHANGED <<store, wrote>>
            ELSE /\ store' = StorageEntryJSON(m.entry)
                 /\ wrote' = [wrote EXCEPT ![p] = wrote[p] + 1]
                 /\ pc' = [pc EXCEPT ![p] = AfterPut(m.changed)]
                 /\ UNCHANGED err
    /\ UNCHANGED <<rwReaders, rwWriter, rwPending, cache, reqOp, resp, before,
                   flushed, lastCommitted>>

(***************************************************************************)
(* pathConfigClientDelete                                                  *)
(***************************************************************************)
\* a Delete that goes on to flush when the storage Delete failed
DeleteStoreFlushOnError(p) ==
    /\ pc[p] = "d_del"
    /\ \E ioerr \in BOOLEAN :
         IF ioerr
         THEN /\ err' = [err EXCEPT ![p] = "io"]
              /\ pc' = [pc EXCEPT ![p] = "d_flush"]
              /\ UNCHANGED <<store, wrote>>
         ELSE /\ store' = NoEntry
              /\ wrote' = [wrote EXCEPT ![p] = wrote[p] + 1]
              /\ pc' = [pc EXCEPT ![p] = "d_flush"]
              /\ UNCHANGED err
    /\ UNCHANGED <<rwReaders, rwWriter, rwPending, cache, reqOp, data, configEntry,
                   changedCreds, resp, before, flushed, lastCommitted>>

\* a Delete that returns without a flush when there was nothing to delete
DeleteStoreNoFlushIfAbsent(p) ==
    /\ pc[p] = "d_del"
    /\ \E ioerr \in BOOLEAN :
         IF ioerr
         THEN /\ err' = [err EXCEPT ![p] = "io"]
              /\ pc' = [pc EXCEPT ![p] = "d_unlock"]
              /\ UNCHANGED <<store, wrote>>
         ELSE /\ store' = NoEntry
              /\ wrote' = [wrote EXCEPT ![p] = wrote[p] + 1]
              /\ pc' = [pc EXCEPT ![p] = IF store = NoEntry THEN "d_unlock" ELSE "d_flush"]
              /\ UNCHANGED err
    /\ UNCHANGED <<rwReaders, rwWriter, rwPending, cache, reqOp, data, configEntry,
                   changedCreds, resp, before, flushed, lastCommitted>>

\* req.Storage.Delete("config/client"); an I/O failure is an input and
\* removes nothing; deleting a missing entry succeeds
DeleteStore(p) ==
    /\ pc[p] = "d_del"
    /\ \E ioerr \in BOOLEAN :
         IF ioerr
         THEN /\ err' = [err EXCEPT ![p] = "io"]
              /\ pc' = [pc EXCEPT ![p] = "d_unlock"]
              /\ UNCHANGED <<store, wrote>>
         ELSE /\ store' = NoEntry
              /\ wrote' = [wrote EXCEPT ![p] = wrote[p] + 1]
              /\ pc' = [pc EXCEPT ![p] = "d_flush"]
              /\ UNCHANGED err
    /\ UNCHANGED <<rwReaders, rwWriter, rwPending, cache, reqOp, data, configEntry,
                   changedCreds, resp, before, flushed, lastCommitted>>

(***************************************************************************)
(* The end of both write handlers                                          *)
(***************************************************************************)
\* a flush made after the mutex has been released
FlushAfterUnlock(p) ==
    /\ pc[p] \in {"u_flush", "d_flush"}
    /\ rwWriter' = IF rwWriter = p THEN NoProc ELSE rwWriter
    /\ cache' = {}
    /\ flushed' = [flushed EXCEPT ![p] = flushed[p] + 1]
    /\ pc' = [pc EXCEPT ![p] = IF pc[p] = "u_flush" THEN "u_unlock" ELSE "d_unlock"]
    /\ UNCHANGED <<store, rwReaders, rwPending, reqOp, data, configEntry,
                   changedCreds, err, resp, before, wrote, lastCommitted>>

\* b.flushCachedEC2Clients(): called before the handler returns, so before
\* the deferred Unlock
Flush(p) ==
    /\ pc[p] \in {"u_flush", "d_flush"}
    /\ cache' = {}
    /\ flushed' = [flushed EXCEPT ![p] = flushed[p] + 1]
    /\ pc' = [pc EXCEPT ![p] = IF pc[p] = "u_flush" THEN "u_unlock" ELSE "d_unlock"]
    /\ UNCHANGED <<store, rwReaders, rwWriter, rwPending, reqOp, data, configEntry,
                   changedCreds, err, resp, before, wrote, lastCommitted>>

\* what a returning write handler has persisted
Committed(p) ==
    IF wrote[p] = 0 THEN lastCommitted
    ELSE IF pc[p] = "u_unlock" THEN <<"put", configEntry[p][1]>>
    ELSE <<"deleted">>

\* the deferred b.configMutex.Unlock(), and the handler returns
Unlock(p) ==
    /\ pc[p] \in {"u_unlock", "d_unlock"}
    /\ rwWriter' = IF rwWriter = p THEN NoProc ELSE rwWriter
    /\ lastCommitted' = Committed(p)
    /\ pc' = [pc EXCEPT ![p] = "idle"]
    /\ Reset(p)
    /\ UNCHANGED <<store, rwReaders, rwPending, cache>>

(***************************************************************************)
(* The client cache                                                        *)
(***************************************************************************)
\* a login builds an EC2 client from the stored configuration and caches it,
\* atomically with the read of the configuration; no stored entry means the
\* default credentials, equal to the empty fields
BuildClient ==
    /\ rwWriter = NoProc
    /\ rwPending = NoProc
    /\ LET r == clientConfigEntryInternal(store, FALSE) IN
         /\ r.err = "none"
         /\ cache' = cache \cup {IF r.entry = Nil THEN ZeroConfig ELSE r.entry[1]}
    /\ UNCHANGED <<store, rwReaders, rwWriter, rwPending, pc, locals, lastCommitted>>

(***************************************************************************)
(* Specification                                                           *)
(***************************************************************************)
Next ==
    \/ \E p \in Procs : StartRead(p)
    \/ \E p \in Procs : StartWrite(p)
    \/ \E p \in Procs : StartDelete(p)
    \/ \E p \in Procs : RLock(p)
    \/ \E p \in Procs : LockAnnounce(p)
    \/ \E p \in Procs : LockAcquire(p)
    \/ \E p \in Procs : ReadLoad(p)
    \/ \E p \in Procs : ReadReturn(p)
    \/ \E p \in Procs : ExistLoad(p)
    \/ \E p \in Procs : ExistReturn(p)
    \/ \E p \in Procs : UpsertLoad(p)
    \/ \E p \in Procs : UpsertPut(p)
    \/ \E p \in Procs : DeleteStore(p)
    \/ \E p \in Procs : Flush(p)
    \/ \E p \in Procs : Unlock(p)
    \/ BuildClient

Spec == Init /\ [][Next]_vars

TypeOK ==
    /\ rwWriter \in Procs \cup {NoProc}
    /\ rwPending \in Procs \cup {NoProc}
    /\ rwReaders \subseteq Procs
    /\ cache \subseteq ClientConfigs

(***************************************************************************)
(* Specification with fair scheduling                                      *)
(***************************************************************************)
\* a step of a handler that waits for nothing but its own goroutine, or for
\* Lock() once the writer is announced: while it waits no reader can enter
Running(p) ==
    \/ LockAcquire(p)
    \/ ReadLoad(p)
    \/ ReadReturn(p)
    \/ ExistLoad(p)
    \/ ExistReturn(p)
    \/ UpsertLoad(p)
    \/ UpsertPut(p)
    \/ DeleteStore(p)
    \/ Flush(p)
    \/ Unlock(p)

\* every goroutine that can run does; a goroutine blocked in RLock() or at
\* the start of Lock() gets the mutex if it is free again and again. Requests
\* need not arrive, and clients need not be built.
Fairness ==
    \A p \in Procs :
        /\ WF_vars(Running(p))
        /\ SF_vars(RLock(p))
        /\ SF_vars(LockAnnounce(p))

FairSpec == Spec /\ Fairness

(***************************************************************************)
(* Specification that remembers the last request                           *)
(***************************************************************************)
\* what a returning write handler has persisted, and for a CreateUpdate the
\* fields its request supplied and its req.Operation
CommittedRequest(p) ==
    IF wrote[p] = 0 THEN lastCommitted
    ELSE IF pc[p] = "u_unlock"
         THEN <<"put", configEntry[p][1], DOMAIN data[p], reqOp[p]>>
         ELSE <<"deleted">>

\* the deferred b.configMutex.Unlock(), and the handler returns; the history
\* keeps the request of the handler
UnlockRemember(p) ==
    /\ pc[p] \in {"u_unlock", "d_unlock"}
    /\ rwWriter' = IF rwWriter = p THEN NoProc ELSE rwWriter
    /\ lastCommitted' = CommittedRequest(p)
    /\ pc' = [pc EXCEPT ![p] = "idle"]
    /\ Reset(p)
    /\ UNCHANGED <<store, rwReaders, rwPending, cache>>

NextRemember ==
    \/ \E p \in Procs : StartRead(p)
    \/ \E p \in Procs : StartWrite(p)
    \/ \E p \in Procs : StartDelete(p)
    \/ \E p \in Procs : RLock(p)
    \/ \E p \in Procs : LockAnnounce(p)
    \/ \E p \in Procs : LockAcquire(p)
    \/ \E p \in Procs : ReadLoad(p)
    \/ \E p \in Procs : ReadReturn(p)
    \/ \E p \in Procs : ExistLoad(p)
    \/ \E p \in Procs : ExistReturn(p)
    \/ \E p \in Procs : UpsertLoad(p)
    \/ \E p \in Procs : UpsertPut(p)
    \/ \E p \in Procs : DeleteStore(p)
    \/ \E p \in Procs : Flush(p)
    \/ \E p \in Procs : UnlockRemember(p)
    \/ BuildClient

SpecRemember == Init /\ [][NextRemember]_vars

(***************************************************************************)
(* Vocabulary of the properties                                            *)
(***************************************************************************)
\* the three field values persisted by the bytes; no entry counts as all empty
FieldsOf(bytes) == IF bytes = NoEntry THEN ZeroConfig ELSE DecodeJSON(bytes)

\* a field of a struct, by the field's request name
Field(c, k) == StructMap(c)[k]

\* inside the load-modify-persist section of CreateUpdate or Delete
InExclusive(p) ==
    pc[p] \in {"u_load", "u_put", "u_flush", "u_unlock", "d_del", "d_flush", "d_unlock"}

\* inside the load of Read or ExistenceCheck
InShared(p) == pc[p] \in {"r_load", "r_unlock", "e_load", "e_unlock"}

\* CreateUpdate or Delete has been called and has not returned
InWrite(p) == InExclusive(p) \/ pc[p] \in {"u_lock", "u_wait", "d_lock", "d_wait"}

\* CreateUpdate has put its record, has flushed if it was going to, and is
\* about to return without an error
UpsertDone(p) == pc[p] = "u_unlock" /\ err[p] = "none"

\* the handler is at its call of flushCachedEC2Clients or has made it
AtOrPastFlush(p) == pc[p] \in {"u_flush", "d_flush"} \/ flushed[p] > 0

\* every value the request supplies equals the value in the struct
SuppliesOnlyEqual(d, c) == \A k \in DOMAIN d : d[k] = Field(c, k)

\* the request supplies a differing value for k and nothing differing elsewhere
DiffersExactlyIn(d, c, k) ==
    /\ k \in DOMAIN d
    /\ d[k] # Field(c, k)
    /\ \A j \in DOMAIN d \ {k} : d[j] = Field(c, j)

(***************************************************************************)
(* Properties                                                              *)
(***************************************************************************)

\* C1: every successful CreateUpdate after which the persisted field values
\* differ from those before it (no entry counted as all three fields empty)
\* has called flushCachedEC2Clients.
C1_InvalidationComplete ==
    \A p \in Procs :
        (UpsertDone(p) /\ FieldsOf(store) # FieldsOf(before[p])) => flushed[p] >= 1

\* C2, as claimed: when a write handler calls flushCachedEC2Clients its storage
\* write has returned and it has released the exclusive mutex, so it never
\* flushes while holding it.
C2_FlushAfterRelease ==
    \A p \in Procs :
        AtOrPastFlush(p) => (wrote[p] = 1 /\ rwWriter # p)

\* C2, amended: the storage write of a write handler returns while it holds the
\* exclusive mutex, and flushCachedEC2Clients is called after that write has
\* returned and before the deferred Unlock: every flush is made holding the
\* exclusive mutex.
C2_FlushUnderLock ==
    \A p \in Procs :
        /\ wrote[p] > 0 => rwWriter = p
        /\ AtOrPastFlush(p) => (wrote[p] = 1 /\ rwWriter = p)

\* a CreateUpdate has put and flushed, in that order, and still holds the mutex
C2_Witness ==
    \E p \in Procs :
        pc[p] = "u_unlock" /\ wrote[p] = 1 /\ flushed[p] = 1 /\ rwWriter = p

\* C3: a successful CreateUpdate that loaded an existing record leaves every
\* field its request does not supply at the stored value, with either
\* req.Operation.
C3_UnsuppliedKept ==
    \A p \in Procs :
        (UpsertDone(p) /\ before[p] # NoEntry) =>
            \A k \in FieldNames \ DOMAIN data[p] :
                Field(FieldsOf(store), k) = Field(FieldsOf(before[p]), k)

\* C4: a handler that is returning an error (of Get, of the decode, of Put or
\* of the storage Delete) has made no storage write and no flush, is not going
\* to flush, and the stored bytes are those it found when it took the mutex; a
\* decode error is returned only for stored bytes that do not decode.
C4_FailedNoEffect ==
    \A p \in Procs :
        err[p] # "none" =>
            /\ wrote[p] = 0
            /\ flushed[p] = 0
            /\ pc[p] \in {"r_unlock", "e_unlock", "u_unlock", "d_unlock"}
            /\ store = before[p]
            /\ err[p] = "decode" => (store # NoEntry /\ ~DecodeOk(store))

\* a Put failed in a CreateUpdate that had changed a field of an existing
\* record, with clients in the cache
C4_Witness ==
    \E p \in Procs :
        /\ pc[p] = "u_unlock" /\ err[p] = "io" /\ configEntry[p] # Nil
        /\ changedCreds[p] /\ store # NoEntry /\ cache # {}

\* C5: at most one goroutine is inside the exclusive section of CreateUpdate or
\* Delete, and while one is, none is inside the load of Read or ExistenceCheck
\* (several may be inside those loads together: C5_Witness).
C5_LockDiscipline ==
    \A p, q \in Procs :
        (p # q /\ InExclusive(p)) => (~InExclusive(q) /\ ~InShared(q))

\* two Reads are inside their load at the same time
C5_Witness ==
    \E p, q \in Procs : p # q /\ pc[p] = "r_load" /\ pc[q] = "r_load"

\* C6: a Read that returns without an error returns the record of the last
\* CreateUpdate that has returned, when no Delete returned after it, and the
\* nil "not configured" response when the last write handler that returned
\* was a Delete.
C6_ReadAfterWrite ==
    \A p \in Procs :
        (pc[p] = "r_unlock" /\ err[p] = "none") =>
            /\ lastCommitted[1] = "put" => resp[p] = <<StructMap(lastCommitted[2])>>
            /\ lastCommitted[1] = "deleted" => resp[p] = Nil

\* a Read returns a record with a non-empty endpoint that a CreateUpdate put
C6_Witness ==
    \E p \in Procs :
        /\ pc[p] = "r_unlock" /\ err[p] = "none" /\ lastCommitted[1] = "put"
        /\ resp[p] # Nil /\ resp[p][1].endpoint = "A1"

\* C7: when no CreateUpdate and no Delete is in progress, every cached client
\* was built from the field values now persisted.
C7_CacheCoherent ==
    (\A p \in Procs : ~InWrite(p)) =>
        IF store = NoEntry \/ DecodeOk(store)
        THEN \A c \in cache : c = FieldsOf(store)
        ELSE cache = {}

\* C8: a CreateUpdate whose supplied values all equal the values it loaded sets
\* no changedCreds and does not flush; and after any successful CreateUpdate
\* the same request merged into the record it left sets no changedCreds, with
\* either req.Operation.
C8_NoSpuriousFlush ==
    \A p \in Procs :
        (pc[p] \in {"u_flush", "u_unlock"} /\ wrote[p] = 1) =>
            /\ SuppliesOnlyEqual(data[p], FieldsOf(before[p])) =>
                   (~changedCreds[p] /\ pc[p] = "u_unlock" /\ flushed[p] = 0)
            /\ SuppliesOnlyEqual(data[p], FieldsOf(store))
            /\ \A o \in {"create", "update"} :
                   ~Merge(FieldsOf(store), data[p], o).changed

\* a CreateUpdate supplied the stored non-empty access key again and is
\* returning without a flush, with clients in the cache
C8_Witness ==
    \E p \in Procs :
        /\ UpsertDone(p) /\ wrote[p] = 1 /\ flushed[p] = 0 /\ cache # {}
        /\ "access_key" \in DOMAIN data[p] /\ data[p]["access_key"] = "A1"
        /\ SuppliesOnlyEqual(data[p], FieldsOf(before[p]))

\* C9: a successful CreateUpdate on an existing record whose request differs
\* from the stored values in exactly one field flushes exactly once and leaves
\* the other two fields of the persisted record as they were.
C9_OneFieldChange ==
    \A p \in Procs :
        (UpsertDone(p) /\ before[p] # NoEntry) =>
            \A k \in FieldNames :
                DiffersExactlyIn(data[p], FieldsOf(before[p]), k) =>
                    /\ flushed[p] = 1
                    /\ \A j \in FieldNames \ {k} :
                           Field(FieldsOf(store), j) = Field(FieldsOf(before[p]), j)

\* C10, as claimed: a successful CreateUpdate that found no entry and whose
\* request supplies only access_key persists that access key with the other
\* two fields empty and has flushed, whatever string the access key is.
C10_FirstCreateFlushes ==
    \A p \in Procs :
        (UpsertDone(p) /\ before[p] = NoEntry /\ DOMAIN data[p] = {"access_key"}) =>
            /\ store = StorageEntryJSON([AccessKey |-> data[p]["access_key"],
                                         SecretKey |-> "", Endpoint |-> ""])
            /\ flushed[p] = 1

\* C10, amended: such a CreateUpdate persists that access key with the other
\* two fields empty, with either req.Operation, and has flushed exactly when
\* the access key is not the empty string.
C10_FirstCreateFlushesIfNonEmpty ==
    \A p \in Procs :
        (UpsertDone(p) /\ before[p] = NoEntry /\ DOMAIN data[p] = {"access_key"}) =>
            /\ store = StorageEntryJSON([AccessKey |-> data[p]["access_key"],
                                         SecretKey |-> "", Endpoint |-> ""])
            /\ flushed[p] = (IF data[p]["access_key"] = "" THEN 0 ELSE 1)

\* a CreateUpdate routed as an update found no entry, put the supplied
\* non-empty access key and flushed
C10_Witness ==
    \E p \in Procs :
        /\ UpsertDone(p) /\ before[p] = NoEntry /\ DOMAIN data[p] = {"access_key"}
        /\ data[p]["access_key"] = "A1" /\ reqOp[p] = "update" /\ flushed[p] = 1
\* Delete is about to return without an error
DeleteDone(p) == pc[p] = "d_unlock" /\ err[p] = "none"

\* the stored bytes are an entry that does not decode into a clientConfig
Corrupt(bytes) == bytes # NoEntry /\ ~DecodeOk(bytes)

\* C11: every successful Delete has made one storage Delete and exactly one
\* flush and leaves no entry stored, whether or not an entry was stored; the
\* only error a Delete returns is an I/O failure of the storage Delete, so a
\* missing entry is no error.
C11_DeleteFlushesOnce ==
    \A p \in Procs :
        /\ DeleteDone(p) => (wrote[p] = 1 /\ flushed[p] = 1 /\ store = NoEntry)
        /\ pc[p] \in {"d_del", "d_flush", "d_unlock"} => err[p] \in {"none", "io"}
        /\ pc[p] = "d_flush" => (err[p] = "none" /\ flushed[p] = 0)

\* a Delete that found no entry is returning without an error after one flush
C11_Witness ==
    \E p \in Procs : DeleteDone(p) /\ before[p] = NoEntry /\ flushed[p] = 1

\* C12, as claimed: a Delete that finds stored bytes that do not decode
\* returns the decode error and leaves the bytes stored.
C12_DeleteFailsOnCorrupt ==
    \A p \in Procs :
        (pc[p] = "d_unlock" /\ Corrupt(before[p])) =>
            (err[p] = "decode" /\ store = before[p])

\* C12, amended: Read, ExistenceCheck and CreateUpdate that find stored bytes
\* that do not decode return an error (the decode error unless Get failed),
\* write nothing and leave the bytes stored; Delete does not decode: unless the
\* storage Delete fails it removes the bytes, flushes and returns no error.
C12_OnlyDeleteRemovesCorrupt ==
    \A p \in Procs :
        Corrupt(before[p]) =>
            /\ pc[p] \in {"r_unlock", "e_unlock", "u_unlock"} =>
                   (err[p] \in {"decode", "io"} /\ wrote[p] = 0 /\ store = before[p])
            /\ pc[p] \notin {"u_put", "u_flush"}
            /\ pc[p] = "d_unlock" =>
                   IF err[p] = "none" THEN store = NoEntry /\ flushed[p] = 1
                   ELSE err[p] = "io" /\ store = before[p]

\* a Delete has removed stored bytes that do not decode, and a CreateUpdate
\* has failed on such bytes with the decode error
C12_Witness ==
    \E p \in Procs :
        /\ Corrupt(before[p])
        /\ \/ DeleteDone(p) /\ store = NoEntry
           \/ pc[p] = "u_unlock" /\ err[p] = "decode"
\* the record a request creates from nothing: the supplied values, and the
\* empty string for every field it does not supply
CreatedFrom(d) ==
    [AccessKey |-> Get(d, "access_key"), SecretKey |-> Get(d, "secret_key"),
     Endpoint |-> Get(d, "endpoint")]

\* a successful CreateUpdate has made exactly one Put and a record is stored;
\* if it found no entry, the record is the one its request creates from
\* nothing, with either req.Operation
C13_UpsertPutsOnce ==
    \A p \in Procs :
        /\ (UpsertDone(p) \/ pc[p] = "u_flush") => (wrote[p] = 1 /\ DecodeOk(store))
        /\ (UpsertDone(p) /\ before[p] = NoEntry) =>
               store = <<"json", CreatedFrom(data[p]).AccessKey,
                         CreatedFrom(data[p]).SecretKey, CreatedFrom(data[p]).Endpoint>>

\* the stored bytes change only in the Put of a CreateUpdate, to a record, and
\* in the storage Delete of a Delete, to no entry
C13_StoreStep ==
    store' # store =>
        \E p \in Procs :
            \/ pc[p] = "u_put" /\ pc'[p] \in {"u_flush", "u_unlock"}
                 /\ wrote'[p] = wrote[p] + 1 /\ DecodeOk(store')
            \/ pc[p] = "d_del" /\ pc'[p] = "d_flush"
                 /\ wrote'[p] = wrote[p] + 1 /\ store' = NoEntry

\* C13: every successful CreateUpdate makes exactly one Put and leaves a record
\* stored, also when it supplies or changes no field; from no entry it stores
\* the supplied values with the other fields empty, with either req.Operation;
\* and the backend becomes Configured only by the Put of a CreateUpdate and
\* Unconfigured only by the storage Delete of a Delete.
C13_UpsertAlwaysPuts == []C13_UpsertPutsOnce /\ [][C13_StoreStep]_vars

\* a CreateUpdate routed as an update found no entry, supplied no field and
\* has put the all-empty record without a flush
C13_Witness ==
    \E p \in Procs :
        /\ UpsertDone(p) /\ before[p] = NoEntry /\ data[p] = NoData
        /\ reqOp[p] = "update" /\ wrote[p] = 1 /\ flushed[p] = 0 /\ store # NoEntry
\* the bytes a further create/update request with data d leaves, when it is
\* routed and run with no other request running: ExistenceCheck on the stored
\* bytes, then load, the three field blocks and Put, all without a failure
UpsertAgain(bytes, d) ==
    LET r == clientConfigEntryInternal(bytes, FALSE)
        op == OperationFor(r.entry # Nil)
        c == IF r.entry = Nil THEN ZeroConfig ELSE r.entry[1]
    IN  StorageEntryJSON(Merge(c, d, op).entry)

\* C14: when a CreateUpdate has succeeded, from no entry or from any record
\* and with either req.Operation, the same request routed and run once more
\* with nothing in between leaves the stored record as it is.
C14_UpsertIdempotent ==
    \A p \in Procs : UpsertDone(p) => UpsertAgain(store, data[p]) = store

\* a CreateUpdate routed as an update has changed one field of a record and
\* kept a non-empty field that it did not supply
C14_Witness ==
    \E p \in Procs :
        /\ UpsertDone(p) /\ reqOp[p] = "update" /\ before[p] # NoEntry
        /\ changedCreds[p] /\ store # before[p]
        /\ \E k \in FieldNames \ DOMAIN data[p] : Field(FieldsOf(store), k) = "A1"
\* C15 (under SpecRemember): when a CreateUpdate succeeds right after another
\* CreateUpdate that was routed with the same req.Operation (both from no
\* entry, or both from a record: their ExistenceChecks saw the same backend)
\* and both requests supply fields, none in common, the stored record holds the values
\* that the earlier one persisted for its fields and the values this one
\* supplies.
C15_NoLostUpdate ==
    \A p \in Procs :
        (/\ UpsertDone(p)
         /\ lastCommitted[1] = "put"
         /\ lastCommitted[4] = reqOp[p]
         /\ lastCommitted[3] # {} /\ DOMAIN data[p] # {}
         /\ lastCommitted[3] \cap DOMAIN data[p] = {}) =>
            /\ \A k \in lastCommitted[3] :
                   Field(FieldsOf(store), k) = Field(lastCommitted[2], k)
            /\ \A k \in DOMAIN data[p] : Field(FieldsOf(store), k) = data[p][k]
\* C16: a Read or ExistenceCheck in progress has made no storage write and no
\* flush and never reaches one, and the stored bytes are those it found when
\* it took the mutex, on every outcome; an ExistenceCheck that returns no
\* error has found an entry (returns true) exactly when an entry is stored; a
\* Read that returns no error returns nil when no entry is stored and
\* otherwise the three stored values under access_key, secret_key, endpoint.
C16_ReadsChangeNothing ==
    \A p \in Procs :
        /\ pc[p] \in {"r_rlock", "r_load", "r_unlock", "e_rlock", "e_load", "e_unlock"} =>
               (wrote[p] = 0 /\ flushed[p] = 0)
        /\ InShared(p) => store = before[p]
        /\ (pc[p] = "e_unlock" /\ err[p] = "none") =>
               ((configEntry[p] # Nil) <=> (store # NoEntry))
        /\ (pc[p] = "r_unlock" /\ err[p] = "none") =>
               IF store = NoEntry THEN resp[p] = Nil
               ELSE /\ resp[p] # Nil
                    /\ resp[p][1].access_key = store[2]
                    /\ resp[p][1].secret_key = store[3]
                    /\ resp[p][1].endpoint = store[4]

\* a Read is returning a stored record with a non-empty access key and an
\* empty secret key while the other goroutine's ExistenceCheck has found it
C16_Witness ==
    \E p, q \in Procs :
        /\ pc[p] = "r_unlock" /\ err[p] = "none" /\ resp[p] # Nil
        /\ resp[p][1].access_key = "A1" /\ resp[p][1].secret_key = ""
        /\ pc[q] = "e_unlock" /\ err[q] = "none" /\ configEntry[q] # Nil
\* the mutex is held shared exactly inside the loads of Read and
\* ExistenceCheck and exclusively exactly inside the sections of CreateUpdate
\* and Delete, error returns included; a handler that is taking the mutex
\* holds it in no mode
C17_HeldOnlyInside ==
    \A p \in Procs :
        /\ (p \in rwReaders) <=> InShared(p)
        /\ (rwWriter = p) <=> InExclusive(p)
        /\ (rwPending = p) <=> pc[p] \in {"u_wait", "d_wait"}

\* C17 (under FairSpec): every handler that has been called returns, and the
\* mutex is held by no goroutine outside its handler's locked section, on
\* error returns too; CreateUpdate takes the mutex once and loads without
\* taking it again.
C17_EveryCallReturns ==
    /\ []C17_HeldOnlyInside
    /\ \A p \in Procs : (pc[p] # "idle") ~> (pc[p] = "idle")

\* a CreateUpdate is returning an error with the mutex held while the other
\* goroutine waits in RLock for it
C17_Witness ==
    \E p, q \in Procs :
        /\ pc[p] = "u_unlock" /\ err[p] # "none" /\ rwWriter = p
        /\ pc[q] \in {"r_rlock", "e_rlock"}
\* C18: when a write handler is at its call of flushCachedEC2Clients, and
\* after the call until it returns, the stored bytes are what this handler
\* wrote (the record it put, or no entry after its storage Delete) and no
\* other goroutine is inside a load or a locked section: nothing has read or
\* written the entry since this handler's write.
C18_FlushSeesOwnWrite ==
    \A p \in Procs :
        AtOrPastFlush(p) =>
            /\ store = IF pc[p] \in {"u_flush", "u_unlock"}
                       THEN <<"json", configEntry[p][1].AccessKey,
                              configEntry[p][1].SecretKey, configEntry[p][1].Endpoint>>
                       ELSE NoEntry
            /\ \A q \in Procs \ {p} : ~InShared(q) /\ ~InExclusive(q)

\* a CreateUpdate that changed the record is at its flush while the other
\* goroutine is blocked in Lock or RLock
C18_Witness ==
    \E p, q \in Procs :
        /\ pc[p] = "u_flush" /\ store # before[p] /\ cache # {}
        /\ pc[q] \in {"u_lock", "d_lock", "r_rlock", "e_rlock"}
====
